---- MODULE Spec2Model ----
(***************************************************************************)
(* Model of package hazexpired (src/hazexpired.go): FetchChain and the     *)
(* three queries Expired, ExpiresWithinDays and ExpiresBeforeDate.         *)
(*                                                                         *)
(* Time is counted in whole hours.  A time.Time is an integer number of    *)
(* hours, a time.Duration the difference of two of them.  The network and  *)
(* the peer are the environment: the outcome of tls.DialWithDialer and the *)
(* certificates the peer presents are chosen nondeterministically.         *)
(* Every invocation is a caller with its own program counter and locals;   *)
(* an invocation is cut at its blocking points (the dial, the clock read)  *)
(* and at every iteration of the loop over the peer certificates, so that  *)
(* the wall clock and other callers can move in between.                   *)
(***************************************************************************)
EXTENDS Integers, Sequences, FiniteSets, TLC

VARIABLES pc, call, conn, dials, now, idx, chain, fc, ret, clock, dialer

vars == <<pc, call, conn, dials, now, idx, chain, fc, ret, clock, dialer>>

(* ------------------------------ bounds --------------------------------- *)

\* certificates expire on day 0..MaxDay; day thresholds range over -MaxDay..MaxDay
MaxDay == 2
\* longest certificate chain a peer presents
MaxChain == 2
\* number of hours the wall clock advances
MaxTicks == 1

(* ------------------------- program constants --------------------------- *)

\* the divisor of `Hours() / 24`
HoursPerDay == 24
\* dialer.Timeout, in seconds
DialTimeoutSeconds == 3

(* ---------------------------- value domains ---------------------------- *)

Addresses == {"example.com:443", "iamateapot:418"}

\* first reading of the wall clock: the start of day 1
ClockStart == HoursPerDay

\* not-after instants: the start of each day and one hour later
Times == {d * HoursPerDay + o : d \in 0..MaxDay, o \in 0..1}

Days == (0 - MaxDay)..MaxDay

\* The peer's certificates (x509.Certificate, the three fields the program
\* reads).  Every certificate has its own signature and serial number.
Certificates ==
    {[NotAfter |-> t, Signature |-> <<t % 256, 48>>, SerialNumber |-> 1000 + t] : t \in Times}

RECURSIVE SeqsUpTo(_, _)
SeqsUpTo(S, n) ==
    IF n = 0 THEN {<<>>}
    ELSE LET shorter == SeqsUpTo(S, n - 1)
         IN  shorter \cup {Append(s, x) : s \in {q \in shorter : Len(q) = n - 1}, x \in S}

PeerChains == SeqsUpTo(Certificates, MaxChain)

Ops == {"FetchChain", "Expired", "ExpiresWithinDays", "ExpiresBeforeDate"}

\* the invocations a caller can make: the function, its address and its argument
Calls ==
    {[op |-> o, address |-> a, days |-> 0, t |-> 0] : o \in {"FetchChain", "Expired"}, a \in Addresses}
    \cup {[op |-> "ExpiresWithinDays", address |-> a, days |-> d, t |-> 0] : a \in Addresses, d \in Days}
    \cup {[op |-> "ExpiresBeforeDate", address |-> a, days |-> 0, t |-> t] : a \in Addresses, t \in Times}

\* with several concurrent callers each caller draws from a smaller domain
ConcCertificates == {c \in Certificates : c.NotAfter \in {0, 2 * HoursPerDay}}
ConcPeerChains == SeqsUpTo(ConcCertificates, 1)
ConcCalls ==
    {k \in Calls : /\ k.address = "example.com:443"
                   /\ k.days \in {0, 1}
                   /\ k.t \in {0, ClockStart}
                   /\ (k.op = "ExpiresWithinDays" => k.days = 1)
                   /\ (k.op = "ExpiresBeforeDate" => k.t = ClockStart)}

Procs == DOMAIN pc
Concurrent == Cardinality(Procs) > 1
CallDomain == IF Concurrent THEN ConcCalls ELSE Calls
ChainDomain == IF Concurrent THEN ConcPeerChains ELSE PeerChains

(* ------------------------------ values --------------------------------- *)

NoErr == <<>>
NoCall == [op |-> "none", address |-> "", days |-> 0, t |-> 0]
\* no connection; cause = "" stands for a nil error of tls.DialWithDialer
NoConn == [state |-> "none", cause |-> "", peer |-> <<>>]
NoFetch == [chain |-> <<>>, err |-> NoErr]
NoRet == [b |-> FALSE, err |-> NoErr]

DialCauses == {"no such host", "connection refused", "i/o timeout", "handshake failure"}

(* --------------------------- pure functions ---------------------------- *)

\* int(x / y) of Go: the conversion of a floating-point quotient to int
\* discards the fraction, so it rounds toward zero
TruncDiv(x, y) == IF x >= 0 THEN x \div y ELSE 0 - ((0 - x) \div y)

\* the mathematical floor of x / y (y > 0)
FloorDiv(x, y) == x \div y

\* time.Time.Before
Before(t, u) == t < u

\* time.Time.Sub, in hours.  Sub saturates at the largest Duration (about 292
\* years); the instants of the model are days apart, far below it.
Sub(t, u) == t - u

\* Status with the serial number left at its zero value
StatusNoSerial(cert, t) ==
    [ExpiredNow |-> Before(cert.NotAfter, t),
     ExpiresInDays |-> TruncDiv(Sub(cert.NotAfter, t), HoursPerDay),
     ExpirationDate |-> cert.NotAfter,
     Signature |-> cert.Signature,
     SerialNumber |-> 0]

\* Status with a certificate that expires at the observation instant marked expired
StatusNotStrict(cert, t) ==
    [ExpiredNow |-> cert.NotAfter <= t,
     ExpiresInDays |-> TruncDiv(Sub(cert.NotAfter, t), HoursPerDay),
     ExpirationDate |-> cert.NotAfter,
     Signature |-> cert.Signature,
     SerialNumber |-> cert.SerialNumber]

\* the body of the loop of FetchChain: the status record of one certificate
Status(cert, t) ==
    [ExpiredNow |-> Before(cert.NotAfter, t),
     ExpiresInDays |-> TruncDiv(Sub(cert.NotAfter, t), HoursPerDay),
     ExpirationDate |-> cert.NotAfter,
     Signature |-> cert.Signature,
     SerialNumber |-> cert.SerialNumber]

\* fmt.Errorf of FetchChain: the message, the address and the cause
DialError(address, cause) ==
    <<"Could not establish connection to outbound address", address, cause>>

\* fmt.Errorf of the queries: the message and the wrapped error
QueryError(err) == <<"Error Fetching Certificate Chain", err>>

\* FetchChain dropping the error of tls.DialWithDialer
FetchChainFailureNilError(address, cause) == [chain |-> <<>>, err |-> NoErr]

\* what FetchChain returns when tls.DialWithDialer fails
FetchChainFailure(address, cause) == [chain |-> <<>>, err |-> DialError(address, cause)]

\* what FetchChain returns after its loop
FetchChainSuccess(c) == [chain |-> c, err |-> NoErr]

\* `chain` and `now` declared at package level: one slot for every invocation
ChainSlotShared(c) == 1

\* `chain` and `now` are local variables of an invocation of FetchChain
ChainSlot(c) == c

\* FetchChain without the deferred c.Close()
CloseMissing(cn) == cn

\* c.Close(), deferred in FetchChain
Close(cn) == [cn EXCEPT !.state = "closed"]

\* the loops of the queries: return true at the first matching record
RECURSIVE ExpiredLoop(_, _)
ExpiredLoop(ch, i) ==
    IF i > Len(ch) THEN FALSE
    ELSE IF ch[i].ExpiredNow THEN TRUE
    ELSE ExpiredLoop(ch, i + 1)

RECURSIVE WithinDaysLoop(_, _, _)
WithinDaysLoop(ch, i, days) ==
    IF i > Len(ch) THEN FALSE
    ELSE IF ch[i].ExpiresInDays < days THEN TRUE
    ELSE WithinDaysLoop(ch, i + 1, days)

RECURSIVE BeforeDateLoop(_, _, _)
BeforeDateLoop(ch, i, t) ==
    IF i > Len(ch) THEN FALSE
    ELSE IF Before(ch[i].ExpirationDate, t) THEN TRUE
    ELSE BeforeDateLoop(ch, i + 1, t)

\* Expired returning false with the error
ExpiredFalseOnError(f) ==
    IF f.err # NoErr THEN [b |-> FALSE, err |-> QueryError(f.err)]
    ELSE [b |-> ExpiredLoop(f.chain, 1), err |-> NoErr]

\* ExpiresBeforeDate returning false from inside the loop: only the first record counts
ExpiresBeforeDateFirstOnly(f, t) ==
    IF f.err # NoErr THEN [b |-> TRUE, err |-> QueryError(f.err)]
    ELSE [b |-> Len(f.chain) > 0 /\ Before(f.chain[1].ExpirationDate, t), err |-> NoErr]

\* ExpiresWithinDays comparing with <= instead of <
ExpiresWithinDaysLeq(f, days) ==
    IF f.err # NoErr THEN [b |-> TRUE, err |-> QueryError(f.err)]
    ELSE [b |-> \E i \in 1..Len(f.chain) : f.chain[i].ExpiresInDays <= days, err |-> NoErr]

\* the queries, applied to what their call of FetchChain returned
Expired(f) ==
    IF f.err # NoErr THEN [b |-> TRUE, err |-> QueryError(f.err)]
    ELSE [b |-> ExpiredLoop(f.chain, 1), err |-> NoErr]

ExpiresWithinDays(f, days) ==
    IF f.err # NoErr THEN [b |-> TRUE, err |-> QueryError(f.err)]
    ELSE [b |-> WithinDaysLoop(f.chain, 1, days), err |-> NoErr]

ExpiresBeforeDate(f, t) ==
    IF f.err # NoErr THEN [b |-> TRUE, err |-> QueryError(f.err)]
    ELSE [b |-> BeforeDateLoop(f.chain, 1, t), err |-> NoErr]

Query(k, f) ==
    CASE k.op = "Expired" -> Expired(f)
      [] k.op = "ExpiresWithinDays" -> ExpiresWithinDays(f, k.days)
      [] k.op = "ExpiresBeforeDate" -> ExpiresBeforeDate(f, k.t)

\* where an invocation continues when its FetchChain has returned
AfterFetch(k) == IF k.op = "FetchChain" THEN "done" ELSE "fold"

(* ------------------------------ the state ------------------------------ *)

InitFor(P) ==
    /\ pc = [c \in P |-> "idle"]
    /\ call = [c \in P |-> NoCall]
    /\ conn = [c \in P |-> NoConn]
    /\ dials = [c \in P |-> 0]
    /\ now = [c \in P |-> 0]
    /\ idx = [c \in P |-> 0]
    /\ chain = [c \in P |-> <<>>]
    /\ fc = [c \in P |-> NoFetch]
    /\ ret = [c \in P |-> NoRet]
    /\ clock = ClockStart
    /\ dialer = [Timeout |-> DialTimeoutSeconds]

\* one caller
Init == InitFor({1})

\* two concurrent callers
InitConc == InitFor({1, 2})

(* ------------------------------ the steps ------------------------------ *)

\* a caller invokes one of the four functions
Invoke(c) ==
    /\ pc[c] = "idle"
    /\ \E k \in CallDomain : call' = [call EXCEPT ![c] = k]
    /\ pc' = [pc EXCEPT ![c] = "dial"]
    /\ UNCHANGED <<conn, dials, now, idx, chain, fc, ret, clock, dialer>>

\* tls.DialWithDialer fails and FetchChain returns the error.  When the TCP
\* connection was made and the handshake failed, DialWithDialer has closed
\* the connection itself before it returns the error.
DialFail(c) ==
    /\ pc[c] = "dial"
    /\ \E cause \in DialCauses :
        /\ conn' = [conn EXCEPT ![c] =
                      [state |-> IF cause = "handshake failure" THEN "closed" ELSE "none",
                       cause |-> cause, peer |-> <<>>]]
        /\ fc' = [fc EXCEPT ![c] = FetchChainFailure(call[c].address, cause)]
    /\ dials' = [dials EXCEPT ![c] = @ + 1]
    /\ pc' = [pc EXCEPT ![c] = AfterFetch(call[c])]
    /\ UNCHANGED <<call, now, idx, chain, ret, clock, dialer>>

\* tls.DialWithDialer succeeds: the connection is open and holds the
\* certificates the peer presented in the handshake
DialOk(c) ==
    /\ pc[c] = "dial"
    /\ \E peer \in ChainDomain :
        conn' = [conn EXCEPT ![c] = [state |-> "open", cause |-> "", peer |-> peer]]
    /\ dials' = [dials EXCEPT ![c] = @ + 1]
    /\ pc' = [pc EXCEPT ![c] = "connected"]
    /\ UNCHANGED <<call, now, idx, chain, fc, ret, clock, dialer>>

\* var chain []*CertificateStatus; now := time.Now()
Capture(c) ==
    /\ pc[c] = "connected"
    /\ chain' = [chain EXCEPT ![ChainSlot(c)] = <<>>]
    /\ now' = [now EXCEPT ![ChainSlot(c)] = clock]
    /\ idx' = [idx EXCEPT ![c] = 1]
    /\ pc' = [pc EXCEPT ![c] = "loop"]
    /\ UNCHANGED <<call, conn, dials, fc, ret, clock, dialer>>

\* one iteration of the loop over c.ConnectionState().PeerCertificates
LoopStep(c) ==
    /\ pc[c] = "loop"
    /\ idx[c] <= Len(conn[c].peer)
    /\ chain' = [chain EXCEPT ![ChainSlot(c)] =
                   Append(@, Status(conn[c].peer[idx[c]], now[ChainSlot(c)]))]
    /\ idx' = [idx EXCEPT ![c] = @ + 1]
    /\ UNCHANGED <<pc, call, conn, dials, now, fc, ret, clock, dialer>>

\* return chain, nil; the deferred c.Close() runs
Finish(c) ==
    /\ pc[c] = "loop"
    /\ idx[c] > Len(conn[c].peer)
    /\ fc' = [fc EXCEPT ![c] = FetchChainSuccess(chain[ChainSlot(c)])]
    /\ conn' = [conn EXCEPT ![c] = Close(@)]
    /\ pc' = [pc EXCEPT ![c] = AfterFetch(call[c])]
    /\ UNCHANGED <<call, dials, now, idx, chain, ret, clock, dialer>>

\* the rest of a query: the error return, or the loop over the chain
Fold(c) ==
    /\ pc[c] = "fold"
    /\ ret' = [ret EXCEPT ![c] = Query(call[c], fc[c])]
    /\ pc' = [pc EXCEPT ![c] = "done"]
    /\ UNCHANGED <<call, conn, dials, now, idx, chain, fc, clock, dialer>>

\* the caller drops the result; nothing of the invocation is kept
Discard(c) ==
    /\ pc[c] = "done"
    /\ pc' = [pc EXCEPT ![c] = "idle"]
    /\ call' = [call EXCEPT ![c] = NoCall]
    /\ conn' = [conn EXCEPT ![c] = NoConn]
    /\ dials' = [dials EXCEPT ![c] = 0]
    /\ now' = [now EXCEPT ![c] = 0]
    /\ idx' = [idx EXCEPT ![c] = 0]
    /\ chain' = [chain EXCEPT ![c] = <<>>]
    /\ fc' = [fc EXCEPT ![c] = NoFetch]
    /\ ret' = [ret EXCEPT ![c] = NoRet]
    /\ UNCHANGED <<clock, dialer>>

\* an hour passes on the wall clock
Tick ==
    /\ clock < ClockStart + MaxTicks
    /\ clock' = clock + 1
    /\ UNCHANGED <<pc, call, conn, dials, now, idx, chain, fc, ret, dialer>>

Next ==
    \/ \E c \in Procs : Invoke(c)
    \/ \E c \in Procs : DialFail(c)
    \/ \E c \in Procs : DialOk(c)
    \/ \E c \in Procs : Capture(c)
    \/ \E c \in Procs : LoopStep(c)
    \/ \E c \in Procs : Finish(c)
    \/ \E c \in Procs : Fold(c)
    \/ \E c \in Procs : Discard(c)
    \/ Tick

Spec == Init /\ [][Next]_vars

SpecConc == InitConc /\ [][Next]_vars

(* ------------------------------ the claims ------------------------------ *)

\* the invocation of c has returned from FetchChain / has returned to its caller
Fetched(c) == pc[c] \in {"fold", "done"}
Returned(c) == pc[c] = "done"
IsQuery(c) == call[c].op \in {"Expired", "ExpiresWithinDays", "ExpiresBeforeDate"}
DialFailed(c) == conn[c].cause # ""
FetchOk(c) == Fetched(c) /\ fc[c].err = NoErr

\* hours from the observation instant of c to the expiration of a record
HoursLeft(c, st) == st.ExpirationDate - now[c]

\* C1: when the address does not resolve, the connection cannot be made or
\* the handshake fails, FetchChain returns a non-nil error and a nil chain,
\* and a query returns a non-nil error.
C1_ErrorOnDialFailure ==
    \A c \in Procs :
        DialFailed(c) =>
            /\ Fetched(c)
            /\ fc[c].err # NoErr
            /\ fc[c].chain = <<>>
            /\ (Returned(c) /\ IsQuery(c) => ret[c].err # NoErr)

C1_Witness ==
    \E c \in Procs :
        /\ Returned(c) /\ call[c].op = "ExpiresWithinDays"
        /\ conn[c].cause = "no such host"
        /\ ret[c].err # NoErr

\* C2: when FetchChain succeeded a query returns (b, nil), b being true
\* exactly when some record of the fetched chain satisfies the predicate of
\* the query; on an empty chain every query returns false.
C2_AnyMatch ==
    \A c \in Procs :
        Returned(c) /\ IsQuery(c) /\ FetchOk(c) =>
            LET ch == fc[c].chain
                k == call[c]
            IN  /\ ret[c].err = NoErr
                /\ (k.op = "Expired" =>
                        (ret[c].b <=> \E i \in 1..Len(ch) : ch[i].ExpiredNow))
                /\ (k.op = "ExpiresWithinDays" =>
                        (ret[c].b <=> \E i \in 1..Len(ch) : ch[i].ExpiresInDays < k.days))
                /\ (k.op = "ExpiresBeforeDate" =>
                        (ret[c].b <=> \E i \in 1..Len(ch) : ch[i].ExpirationDate < k.t))
                /\ (ch = <<>> => ~ret[c].b)

\* the second record alone satisfies the predicate
C2_Witness ==
    \E c \in Procs :
        /\ Returned(c) /\ call[c].op = "ExpiresBeforeDate" /\ FetchOk(c)
        /\ Len(fc[c].chain) = 2
        /\ ~(fc[c].chain[1].ExpirationDate < call[c].t)
        /\ fc[c].chain[2].ExpirationDate < call[c].t
        /\ ret[c].b

\* C3: on success FetchChain returns one record per certificate of the
\* peer, in the peer's order, with the not-after, the signature and the
\* serial number of the certificate unchanged.
C3_OneRecordPerCertificate ==
    \A c \in Procs :
        FetchOk(c) =>
            /\ Len(fc[c].chain) = Len(conn[c].peer)
            /\ \A i \in 1..Len(conn[c].peer) :
                /\ fc[c].chain[i].ExpirationDate = conn[c].peer[i].NotAfter
                /\ fc[c].chain[i].Signature = conn[c].peer[i].Signature
                /\ fc[c].chain[i].SerialNumber = conn[c].peer[i].SerialNumber

C3_Witness ==
    \E c \in Procs :
        /\ FetchOk(c) /\ call[c].op = "FetchChain"
        /\ Len(conn[c].peer) = 2
        /\ conn[c].peer[1].NotAfter > conn[c].peer[2].NotAfter
        /\ fc[c].chain[1].SerialNumber # fc[c].chain[2].SerialNumber

\* C4: in every record ExpiredNow is true exactly when ExpirationDate is
\* strictly before the observation instant, the one instant captured for
\* the whole call, from which ExpiresInDays of every record is derived too;
\* a certificate that expires at that very instant is not marked expired.
C4_Record(c, st) ==
    /\ st.ExpiredNow <=> st.ExpirationDate < now[c]
    /\ st.ExpiresInDays = TruncDiv(st.ExpirationDate - now[c], HoursPerDay)
    /\ (st.ExpirationDate = now[c] => ~st.ExpiredNow)

C4_ExpiredNowStrict ==
    \A c \in Procs :
        /\ pc[c] = "loop" => \A i \in 1..Len(chain[c]) : C4_Record(c, chain[c][i])
        /\ FetchOk(c) => \A i \in 1..Len(fc[c].chain) : C4_Record(c, fc[c].chain[i])

\* the clock moved during the call and one certificate expires at the instant observed
C4_Witness ==
    \E c \in Procs :
        /\ FetchOk(c)
        /\ clock > now[c]
        /\ Len(fc[c].chain) = 2
        /\ fc[c].chain[1].ExpirationDate = now[c]
        /\ ~fc[c].chain[1].ExpiredNow
        /\ fc[c].chain[2].ExpiredNow

\* C5: ExpiresInDays is floor(h / 24), h the hours from the observation
\* instant to the expiration, and negative whenever the certificate is
\* expired.
C5_FloorOfDays ==
    \A c \in Procs :
        FetchOk(c) =>
            \A i \in 1..Len(fc[c].chain) :
                LET st == fc[c].chain[i]
                IN  /\ st.ExpiresInDays = FloorDiv(HoursLeft(c, st), HoursPerDay)
                    /\ (st.ExpiredNow => st.ExpiresInDays < 0)

\* C6: for a negative threshold ExpiresWithinDays returns true exactly when
\* some certificate has been expired for more than |days| x 24 hours.
C6_NegativeThreshold ==
    \A c \in Procs :
        Returned(c) /\ call[c].op = "ExpiresWithinDays" /\ FetchOk(c) /\ call[c].days < 0 =>
            (ret[c].b <=>
                \E i \in 1..Len(fc[c].chain) :
                    0 - HoursLeft(c, fc[c].chain[i]) > (0 - call[c].days) * HoursPerDay)

\* C7: when FetchChain fails every query returns true with a non-nil
\* error; a query never returns false with an error, and never an error
\* when FetchChain succeeded.
C7_TrueWithError ==
    \A c \in Procs :
        Returned(c) /\ IsQuery(c) =>
            /\ (fc[c].err # NoErr => ret[c].b /\ ret[c].err # NoErr)
            /\ (ret[c].err # NoErr => ret[c].b)
            /\ (fc[c].err = NoErr => ret[c].err = NoErr)

C7_Witness ==
    \E c \in Procs :
        /\ Returned(c) /\ call[c].op = "Expired"
        /\ conn[c].cause = "handshake failure"
        /\ ret[c].b /\ ret[c].err # NoErr

\* C8: a call makes exactly one connection attempt, and when FetchChain has
\* returned no connection of the call is open, whether the dial failed,
\* the handshake failed or the chain was returned.
C8_OneDialAndClosed ==
    \A c \in Procs :
        /\ dials[c] <= 1
        /\ (pc[c] \in {"connected", "loop"} => dials[c] = 1)
        /\ (Fetched(c) => dials[c] = 1 /\ conn[c].state # "open")

C8_Witness ==
    \E c \in Procs :
        /\ Returned(c) /\ FetchOk(c)
        /\ Len(conn[c].peer) > 0
        /\ conn[c].state = "closed"
        /\ dials[c] = 1

\* C9: concurrent calls are independent: no step of one call changes the
\* state of another call, no step changes the dialer, every open connection
\* belongs to one call, and what a call returns is determined by its own
\* arguments, the certificates its own connection received and its own
\* observation instant.
Local(c) == <<pc[c], call[c], conn[c], dials[c], now[c], idx[c], chain[c], fc[c], ret[c]>>

RECURSIVE StatusOfAll(_, _)
StatusOfAll(peer, t) ==
    IF peer = <<>> THEN <<>>
    ELSE <<Status(Head(peer), t)>> \o StatusOfAll(Tail(peer), t)

OwnResult(c) ==
    /\ (FetchOk(c) => fc[c].chain = StatusOfAll(conn[c].peer, now[c]))
    /\ (Returned(c) /\ IsQuery(c) /\ FetchOk(c) =>
            ret[c] = Query(call[c], FetchChainSuccess(StatusOfAll(conn[c].peer, now[c]))))
    /\ (Returned(c) /\ IsQuery(c) /\ DialFailed(c) =>
            ret[c] = Query(call[c], FetchChainFailure(call[c].address, conn[c].cause)))

C9_Independent ==
    /\ [][/\ dialer' = dialer
          /\ \A c, d \in Procs : c # d => Local(c)' = Local(c) \/ Local(d)' = Local(d)]_vars
    /\ [](\A c \in Procs : OwnResult(c))

\* two calls to the same address are in their loops at the same time,
\* each on its own open connection, holding different certificates
C9_Witness ==
    /\ Concurrent
    /\ pc[1] = "loop" /\ pc[2] = "loop"
    /\ call[1].address = call[2].address
    /\ conn[1].state = "open" /\ conn[2].state = "open"
    /\ conn[1].peer # conn[2].peer
    /\ chain[1] # <<>> /\ chain[2] # <<>>

\* C10: with a certificate that expired before the observation instant in
\* the chain, Expired is true, ExpiresWithinDays(days) is true for days >= 1
\* and ExpiresBeforeDate(t) is true for t at or after the observation
\* instant; when every certificate has days x 24 hours or more left
\* (days >= 1), Expired and ExpiresWithinDays(days) are false.
C10_QueriesAgree ==
    \A c \in Procs :
        Returned(c) /\ IsQuery(c) /\ FetchOk(c) =>
            LET ch == fc[c].chain
                k == call[c]
                hasExpired == \E i \in 1..Len(ch) : ch[i].ExpirationDate < now[c]
                allLeft(d) == \A i \in 1..Len(ch) : HoursLeft(c, ch[i]) >= d * HoursPerDay
            IN  /\ (hasExpired /\ k.op = "Expired" => ret[c].b)
                /\ (hasExpired /\ k.op = "ExpiresWithinDays" /\ k.days >= 1 => ret[c].b)
                /\ (hasExpired /\ k.op = "ExpiresBeforeDate" /\ k.t >= now[c] => ret[c].b)
                /\ (k.op = "ExpiresWithinDays" /\ k.days >= 1 /\ allLeft(k.days) => ~ret[c].b)
                /\ (k.op = "Expired" /\ allLeft(1) => ~ret[c].b)

\* a certificate with exactly days x 24 hours left does not expire within days
C10_Witness ==
    \E c \in Procs :
        /\ Returned(c) /\ call[c].op = "ExpiresWithinDays" /\ FetchOk(c)
        /\ call[c].days = 1
        /\ Len(fc[c].chain) = 2
        /\ HoursLeft(c, fc[c].chain[1]) = HoursPerDay
        /\ HoursLeft(c, fc[c].chain[2]) > HoursPerDay
        /\ ~ret[c].b

====
